---- MODULE Spec2Model ----
(***************************************************************************)
(* Product variant configurator: the gateway's combination resolution      *)
(* (src/gateway.py: /config/prepare, /config/create) over a catalog of     *)
(* variants, and the chat session state machine of src/bot.py.             *)
(*                                                                         *)
(* Conventions: Python's None is modelled as 0 for ids, as the string      *)
(* "None" for optional strings and as NoneVal for optional records.        *)
(***************************************************************************)
EXTENDS Integers, Sequences, FiniteSets, TLC

VARIABLES
    variants,   \* catalog: product.product rows, in the order the catalog returns them
    variants0,  \* history: the catalog at the start
    reqs,       \* gateway requests in flight or answered, in arrival order; under
                \* SpecClient the calls of gw_post with their results
    conv,       \* bot: the state of the variant conversation of the user
    ud,         \* bot: context.user_data of the user, the session
    last,       \* history: the handler of the last update, the kind of its callback
                \* data or message, and the gateway path it posted to
    sessions,   \* bot, several users: the conversation state and the user_data of each
    solo,       \* history: the session and the catalog of user "B" had the bot
                \* handled the updates of "B" only
    kb,         \* bot: a call of a keyboard builder, its arguments and what it renders
    prepared,   \* history: the payload of the last /config/prepare the gateway
                \* answered with ok, as on_barcode_text sent it
    po          \* bot: the purchase-order conversation of the user: its state, the
                \* keys it keeps in context.user_data and, as history, the lines
                \* the user entered and the order lines posted on confirm

gwvars == <<variants, variants0, reqs>>
botvars == <<conv, ud, last>>
uservars == <<sessions, solo>>
flowvars == <<kb, prepared, po>>
vars == <<variants, variants0, reqs, conv, ud, last, sessions, solo, kb, prepared, po>>

(***************************************************************************)
(* Bounds of the model.                                                    *)
(***************************************************************************)
\* number of gateway requests (concurrent or retried) in one behaviour
MaxReqs == 3
\* the highest page cursor an attribute of the session is driven to
MaxPage == 1
\* the size the catalog grows to through the bot's create requests
MaxVariants == 3

(***************************************************************************)
(* The catalog (external): templates, template attribute values, variants. *)
(***************************************************************************)
NoneVal == [id |-> 0]

\* templates that exist in the catalog; template 1 has two attribute lines,
\* template 2 has none
TemplateIds == {1, 2}

\* product.template.attribute.value rows: value 1, 2 (attribute 1) and value 3
\* (attribute 2) are on template 1; value 4 (attribute 2) is on no template
PtavRows ==
    << [id |-> 11, tmpl |-> 1, pav |-> 1],
       [id |-> 12, tmpl |-> 1, pav |-> 2],
       [id |-> 13, tmpl |-> 1, pav |-> 3] >>

Variant(id, tmpl, ptavs, active, code, barcode) ==
    [id |-> id, tmpl |-> tmpl, ptavs |-> ptavs, active |-> active,
     default_code |-> code, barcode |-> barcode]

\* catalogs the gateway may start from.
\* CatalogA: an archived variant Blue/S of template 1 and the archived variant
\* with the empty combination of template 2; no variant Red/S.
\* CatalogB: an archived and an active variant with the same combination Red/S
\* (a catalog data anomaly); template 2 has no variant.
CatalogA ==
    << Variant(101, 1, <<12, 13>>, FALSE, "", ""),
       Variant(102, 2, << >>, FALSE, "", "") >>

CatalogB ==
    << Variant(101, 1, <<11, 13>>, FALSE, "A", ""),
       Variant(102, 1, <<11, 13>>, TRUE, "", "B") >>

\* CatalogC: the anomaly of CatalogB, and the same anomaly on template 2: an
\* archived and an active variant with the empty combination
CatalogC ==
    << Variant(101, 1, <<11, 13>>, FALSE, "A", ""),
       Variant(102, 1, <<11, 13>>, TRUE, "", "B"),
       Variant(103, 2, << >>, FALSE, "", ""),
       Variant(104, 2, << >>, TRUE, "", "") >>

InitialCatalogs == { CatalogA, CatalogB }

(***************************************************************************)
(* Helpers on sequences.                                                   *)
(***************************************************************************)
Range(s) == { s[i] : i \in 1..Len(s) }

\* [x for x in s] with duplicates kept, as a set
ToSet(s) == Range(s)

\* a dict lookup d.get(k): None when the key is absent
DictGet(d, k) == IF k \in DOMAIN d THEN d[k] ELSE 0

EmptyDict == [k \in {} |-> 0]

\* "x or None" on an optional string ("" and False are falsy)
OrNone(str) == IF str = "" THEN "None" ELSE str

(***************************************************************************)
(* Gateway requests: the payloads of /config/prepare and /config/create.   *)
(***************************************************************************)
Sel(a, v) == [attribute_id |-> a, value_id |-> v]

Payload(tid, sels) ==
    [template_id |-> tid, selections |-> sels, default_code |-> "REF", barcode |-> "BAR"]

\* Red/S, the same in the other order, a value that is not on the template,
\* Blue/S, the empty selection of the attribute-less template, an unknown template
Payloads ==
    { Payload(1, << Sel(1, 1), Sel(2, 3) >>),
      Payload(1, << Sel(2, 3), Sel(1, 1) >>),
      Payload(1, << Sel(1, 1), Sel(2, 4) >>),
      Payload(1, << Sel(1, 2), Sel(2, 3) >>),
      Payload(2, << >>),
      Payload(3, << Sel(1, 1) >>) }

(***************************************************************************)
(* src/gateway.py: resolution of raw value ids to template-scoped ids.     *)
(***************************************************************************)
\* the dict built from the rows read: a later row overwrites an earlier one
RECURSIVE MappingOfRows(_)
MappingOfRows(rows) ==
    IF rows = << >> THEN EmptyDict
    ELSE LET r == rows[Len(rows)]
         IN  (r.pav :> r.id) @@ MappingOfRows(SubSeq(rows, 1, Len(rows) - 1))

_ptav_ids_for_values(template_id, value_ids) ==
    MappingOfRows(SelectSeq(PtavRows,
        LAMBDA r : r.tmpl = template_id /\ r.pav \in ToSet(value_ids)))

ValueIdsOf(selections) == [i \in 1..Len(selections) |-> selections[i].value_id]

\* the variant as the gateway reports it (VariantInfo)
VariantInfoOf(p) ==
    [id |-> p.id, default_code |-> OrNone(p.default_code),
     barcode |-> OrNone(p.barcode), active |-> p.active]

\* search_read on product.product with ("active", "in", [True, False])
ProductsOfTemplate(vs, template_id) ==
    SelectSeq(vs, LAMBDA p : p.tmpl = template_id /\ p.active \in {TRUE, FALSE})

\* the first product of prods whose set of ptav ids equals want
RECURSIVE FirstWithSet(_, _)
FirstWithSet(prods, want) ==
    IF prods = << >> THEN NoneVal
    ELSE IF ToSet(Head(prods).ptavs) = want THEN VariantInfoOf(Head(prods))
    ELSE FirstWithSet(Tail(prods), want)

\* a lookup that compares the ids as lists, in the order given
_find_variant_by_ptav_list(vs, template_id, ptav_ids) ==
    LET hits == SelectSeq(ProductsOfTemplate(vs, template_id), LAMBDA p : p.ptavs = ptav_ids)
    IN  IF ptav_ids = << >> \/ hits = << >> THEN NoneVal ELSE VariantInfoOf(hits[1])

_find_variant_by_ptav_set(vs, template_id, ptav_ids) ==
    IF ptav_ids = << >> THEN NoneVal
    ELSE FirstWithSet(ProductsOfTemplate(vs, template_id), ToSet(ptav_ids))

(***************************************************************************)
(* Responses. An HTTPException is a response with ok = FALSE and a status. *)
(***************************************************************************)
Resp(ok, status, created, variant, ptav_ids, selections, missing, message) ==
    [ok |-> ok, status |-> status, created |-> created, variant |-> variant,
     ptav_ids |-> ptav_ids, selections |-> selections, missing |-> missing,
     message |-> message]

HttpError(status, missing, message) ==
    Resp(FALSE, status, FALSE, NoneVal, << >>, << >>, missing, message)

NoResp == Resp(FALSE, 0, FALSE, NoneVal, << >>, << >>, << >>, "")

(***************************************************************************)
(* src/gateway.py: /config/prepare.                                        *)
(***************************************************************************)
\* ptav_ids: the resolved id of each selection, unresolved selections skipped
RECURSIVE PreparePtavIds(_, _)
PreparePtavIds(selections, pav_to_ptav) ==
    IF selections = << >> THEN << >>
    ELSE LET ptav_id == DictGet(pav_to_ptav, Head(selections).value_id)
             rest == PreparePtavIds(Tail(selections), pav_to_ptav)
         IN  IF ptav_id # 0 THEN <<ptav_id>> \o rest ELSE rest

Enriched(selections, pav_to_ptav) ==
    [i \in 1..Len(selections) |->
        [attribute_id |-> selections[i].attribute_id,
         value_id |-> selections[i].value_id,
         ptav_id |-> DictGet(pav_to_ptav, selections[i].value_id)]]

config_prepare(vs, payload) ==
    LET tid == payload.template_id
        value_ids == ValueIdsOf(payload.selections)
        pav_to_ptav == _ptav_ids_for_values(tid, value_ids)
        ptav_ids == PreparePtavIds(payload.selections, pav_to_ptav)
        existing == _find_variant_by_ptav_set(vs, tid, ptav_ids)
    IN  IF tid \notin TemplateIds
        THEN HttpError(404, << >>, "product.template not found")
        ELSE Resp(TRUE, 200, FALSE, existing, ptav_ids,
                  Enriched(payload.selections, pav_to_ptav), << >>,
                  IF existing # NoneVal THEN "Exact variant already exists."
                  ELSE "No exact variant exists yet. Ready to create in the next step.")

(***************************************************************************)
(* The catalog's create (external, consumed interface): it rejects a       *)
(* variant whose combination a variant of the template already has         *)
(* (DuplicateCombination); any create may also fail for another reason.    *)
(***************************************************************************)
CatalogHasCombination(vs, template_id, comb) ==
    \E k \in 1..Len(vs) : vs[k].tmpl = template_id /\ ToSet(vs[k].ptavs) = comb

\* a catalog without the uniqueness rule
CatalogNeverRejects(vs, vals) == FALSE

CatalogRejects(vs, vals) ==
    CatalogHasCombination(vs, vals.product_tmpl_id,
                          ToSet(vals.product_template_attribute_value_ids))

\* the ids of a many2many field as the catalog returns them: ascending
RECURSIVE SortedSeqOf(_)
SortedSeqOf(S) ==
    IF S = {} THEN << >>
    ELSE LET m == CHOOSE x \in S : \A y \in S : x <= y
         IN  <<m>> \o SortedSeqOf(S \ {m})

NewId(vs) == 100 + Len(vs) + 1

\* the catalog after create(vals): the new row comes last
CatalogCreate(vs, vals) ==
    Append(vs, Variant(NewId(vs), vals.product_tmpl_id,
                       SortedSeqOf(ToSet(vals.product_template_attribute_value_ids)),
                       TRUE, vals.default_code, vals.barcode))

(***************************************************************************)
(* src/gateway.py: /config/create, in the steps between which another      *)
(* request may run: the check, the catalog create, the fallback check.     *)
(***************************************************************************)
\* missing = [v for v in value_ids if v not in pav_to_ptav]
MissingValues(value_ids, pav_to_ptav) ==
    SelectSeq(value_ids, LAMBDA v : v \notin DOMAIN pav_to_ptav)

CreatePtavIds(value_ids, pav_to_ptav) ==
    [i \in 1..Len(value_ids) |-> pav_to_ptav[value_ids[i]]]

\* the handler up to the catalog create: the response it returns, or NoResp and
\* the ptav_ids it goes on to create with
config_create_check(vs, payload) ==
    LET tid == payload.template_id
        value_ids == ValueIdsOf(payload.selections)
        pav_to_ptav == _ptav_ids_for_values(tid, value_ids)
        missing == MissingValues(value_ids, pav_to_ptav)
    IN  IF tid \notin TemplateIds
        THEN [resp |-> HttpError(404, << >>, "product.template not found"),
              ptav_ids |-> << >>]
        ELSE IF missing # << >>
        THEN [resp |-> HttpError(400, missing, "Selected values not on template"),
              ptav_ids |-> << >>]
        ELSE LET ptav_ids == CreatePtavIds(value_ids, pav_to_ptav)
                 existing == _find_variant_by_ptav_set(vs, tid, ptav_ids)
             IN  IF existing # NoneVal
                 THEN [resp |-> Resp(TRUE, 200, FALSE, existing, << >>, << >>, << >>,
                          "Exact variant already exists. You can use it or change selections."),
                       ptav_ids |-> ptav_ids]
                 ELSE [resp |-> NoResp, ptav_ids |-> ptav_ids]

\* vals of the create call: code and barcode only when truthy
CreateVals(payload, ptav_ids) ==
    [product_tmpl_id |-> payload.template_id,
     product_template_attribute_value_ids |-> ptav_ids,
     default_code |-> IF payload.default_code # "None" THEN payload.default_code ELSE "",
     barcode |-> IF payload.barcode # "None" THEN payload.barcode ELSE ""]

\* the response after a successful create: the new row read back by id
config_create_created(vs, new_id) ==
    LET v == SelectSeq(vs, LAMBDA p : p.id = new_id)
    IN  Resp(TRUE, 200, TRUE, VariantInfoOf(v[1]), << >>, << >>, << >>, "Variant created.")

\* a create that answers a failed catalog create with a variant of its own making
config_create_fallback_fabricates(vs, payload, ptav_ids) ==
    Resp(TRUE, 200, TRUE,
         [id |-> NewId(vs), default_code |-> payload.default_code,
          barcode |-> payload.barcode, active |-> TRUE],
         << >>, << >>, << >>, "Variant created.")

\* the except branch: the fallback check after a failed create
\* a create that reports every failure of the catalog's create
config_create_fallback_raises(vs, payload, ptav_ids) ==
    HttpError(502, << >>, "Odoo create error")

config_create_fallback(vs, payload, ptav_ids) ==
    LET fallback == _find_variant_by_ptav_set(vs, payload.template_id, ptav_ids)
    IN  IF fallback # NoneVal
        THEN Resp(TRUE, 200, FALSE, fallback, << >>, << >>, << >>,
                  "Variant already exists (detected during create).")
        ELSE HttpError(502, << >>, "Odoo create error")

(***************************************************************************)
(* Gateway requests as processes. FastAPI runs each sync handler in its    *)
(* own worker thread, so requests interleave between catalog calls. A      *)
(* request enters the model with its first read of the catalog's variants. *)
(***************************************************************************)
Request(kind, payload, n) ==
    [kind |-> kind, payload |-> payload, pc |-> "start", resp |-> NoResp,
     ptav_ids |-> << >>,
     \* history: catalog size when the handler read the catalog first and when it
     \* answered, whether it called the catalog's create and how that call ended,
     \* the result of its fallback check
     n0 |-> n, n1 |-> n, called_create |-> FALSE, create_failed |-> FALSE,
     fallback |-> NoneVal]

\* a prepare that writes the variant it did not find
PrepareRequestCreating(payload) ==
    /\ Len(reqs) < MaxReqs
    /\ LET c == config_create_check(variants, payload)
           vals == CreateVals(payload, c.ptav_ids)
       IN  variants' = IF c.resp = NoResp /\ ~CatalogRejects(variants, vals)
                       THEN CatalogCreate(variants, vals) ELSE variants
    /\ reqs' = Append(reqs,
           [Request("prepare", payload, Len(variants)) EXCEPT
               !.pc = "done", !.resp = config_prepare(variants, payload),
               !.n1 = Len(variants')])
    /\ UNCHANGED <<variants0, botvars, uservars, flowvars>>

\* a /config/prepare request: it reads the catalog's variants once
PrepareRequest(payload) ==
    /\ Len(reqs) < MaxReqs
    /\ UNCHANGED variants
    /\ reqs' = Append(reqs,
           [Request("prepare", payload, Len(variants)) EXCEPT
               !.pc = "done", !.resp = config_prepare(variants, payload),
               !.n1 = Len(variants')])
    /\ UNCHANGED <<variants0, botvars, uservars, flowvars>>

\* a /config/create request up to its check of the catalog
CreateCheckStep(payload) ==
    /\ Len(reqs) < MaxReqs
    /\ LET c == config_create_check(variants, payload)
       IN  reqs' = Append(reqs,
               [Request("create", payload, Len(variants)) EXCEPT
                   !.pc = IF c.resp = NoResp THEN "create" ELSE "done",
                   !.resp = c.resp, !.ptav_ids = c.ptav_ids])
    /\ UNCHANGED <<variants, variants0, botvars, uservars, flowvars>>

CreateWriteOk(i) ==
    /\ reqs[i].kind = "create" /\ reqs[i].pc = "create"
    /\ LET vals == CreateVals(reqs[i].payload, reqs[i].ptav_ids)
       IN  /\ ~CatalogRejects(variants, vals)
           /\ variants' = CatalogCreate(variants, vals)
           /\ reqs' = [reqs EXCEPT ![i].pc = "done",
                                    ![i].called_create = TRUE,
                                    ![i].resp = config_create_created(variants', NewId(variants)),
                                    ![i].n1 = Len(variants')]
    /\ UNCHANGED <<variants0, botvars, uservars, flowvars>>

CreateWriteRaises(i) ==
    /\ reqs[i].kind = "create" /\ reqs[i].pc = "create"
    /\ reqs' = [reqs EXCEPT ![i].pc = "fallback", ![i].called_create = TRUE,
                             ![i].create_failed = TRUE]
    /\ UNCHANGED <<variants, variants0, botvars, uservars, flowvars>>

CreateFallbackStep(i) ==
    /\ reqs[i].kind = "create" /\ reqs[i].pc = "fallback"
    /\ reqs' = [reqs EXCEPT ![i].pc = "done",
                             ![i].resp = config_create_fallback(variants, reqs[i].payload,
                                                                reqs[i].ptav_ids),
                             ![i].fallback = _find_variant_by_ptav_set(variants,
                                 reqs[i].payload.template_id, reqs[i].ptav_ids),
                             ![i].n1 = Len(variants)]
    /\ UNCHANGED <<variants, variants0, botvars, uservars, flowvars>>

(***************************************************************************)
(* The catalog as the gateway's /config/start and /config/init read it.    *)
(***************************************************************************)
TemplateName(tid) == IF tid = 1 THEN "chair" ELSE "table"

\* the text messages a user sends as a search: blank, a name that matches both
\* templates, a name that matches none; and as a reference or a barcode
SearchInputs == {" ", "a", "zz"}
TextInputs == {" ", "a"}

\* a text taken as it is
StripNothing(text) == text

\* (update.message.text or "").strip()
Strip(text) == IF text = " " THEN "" ELSE text

\* /config/start: the templates whose name holds the query, as Choice rows
config_start(q) ==
    IF q = "a"
    THEN << [id |-> 1, name |-> TemplateName(1)], [id |-> 2, name |-> TemplateName(2)] >>
    ELSE << >>

\* /config/init: the attribute lines of the template with their value ids
config_init(tid) ==
    IF tid = 1
    THEN << [attribute_id |-> 1, values |-> <<1, 2>>],
            [attribute_id |-> 2, values |-> <<3>>] >>
    ELSE << >>

\* the buttons of the keyboards the bot has sent to the chat, in this
\* conversation or an earlier one, stay there to be pressed: the value ids of
\* their val:<attribute_id>:<value_id> buttons (4: a value no attribute of the
\* session has), the template ids of their tpl:<id> buttons, the pages of
\* their tplpage:<n> buttons (1: the More button of a search with more than
\* TemplatesPerPage matches)
ValueInputs == {1, 2, 3, 4}
TemplateInputs == {1, 2}
PageInputs == {0, 1}

(***************************************************************************)
(* src/bot.py: paging of the keyboards.                                    *)
(***************************************************************************)
\* per_page of build_template_keyboard and of build_attr_keyboard
TemplatesPerPage == 8
ValuesPerPage == 10

\* last_page = max(0, math.ceil(total / per_page) - 1)
LastPage(total, per_page) ==
    LET ceil == (total + per_page - 1) \div per_page
    IN  IF ceil - 1 > 0 THEN ceil - 1 ELSE 0

\* the longest item list a keyboard is built for, the largest per_page, and
\* the pages asked for lie in -MaxPageArg..MaxPageArg
MaxItems == 4
MaxPerPage == 3
MaxPageArg == 3

\* item lists: the ids of the templates of a search, or of the values of an
\* attribute; an id may repeat
ItemLists == UNION { [1..n -> {1, 2}] : n \in 0..MaxItems }

\* a slice that takes the item at its end as well
PySliceInclusive(s, start, end) ==
    LET lo == IF start < Len(s) THEN start ELSE Len(s)
        hi == IF end + 1 < Len(s) THEN end + 1 ELSE Len(s)
    IN  IF lo < hi THEN SubSeq(s, lo + 1, hi) ELSE << >>

\* s[start:end] of Python for 0 <= start <= end: both ends are cut to len(s)
PySlice(s, start, end) ==
    LET lo == IF start < Len(s) THEN start ELSE Len(s)
        hi == IF end < Len(s) THEN end ELSE Len(s)
    IN  IF lo < hi THEN SubSeq(s, lo + 1, hi) ELSE << >>

\* a page that is kept from falling below 0 only
ClampPageLow(page, last_page) == IF page > 0 THEN page ELSE 0

\* page = max(0, min(page, last_page))
ClampPage(page, last_page) ==
    LET m == IF page < last_page THEN page ELSE last_page
    IN  IF m > 0 THEN m ELSE 0

\* the navigation buttons of a keyboard: the pages Prev and More lead to
NavButtons(page, last_page) ==
    (IF page > 0 THEN {[button |-> "prev", page |-> page - 1]} ELSE {})
    \cup (IF page < last_page THEN {[button |-> "more", page |-> page + 1]} ELSE {})

\* no keyboard built yet
NoKeyboard ==
    [builder |-> "none", items |-> << >>, page |-> 0, per_page |-> 1,
     shown |-> 0, last_page |-> 0, view |-> << >>, nav |-> {}]

\* build_template_keyboard: the page it renders, the templates whose buttons
\* it holds and its navigation buttons; for no matches it returns the
\* keyboard of the one button "New search" before any page is computed
template_keyboard(matches, page, per_page) ==
    IF Len(matches) = 0
    THEN [builder |-> "build_template_keyboard", items |-> matches, page |-> page,
          per_page |-> per_page, shown |-> 0, last_page |-> 0, view |-> << >>,
          nav |-> {}]
    ELSE LET last_page == LastPage(Len(matches), per_page)
             shown == ClampPage(page, last_page)
         IN  [builder |-> "build_template_keyboard", items |-> matches,
              page |-> page, per_page |-> per_page, shown |-> shown,
              last_page |-> last_page,
              view |-> PySlice(matches, shown * per_page, shown * per_page + per_page),
              nav |-> NavButtons(shown, last_page)]

\* build_attr_keyboard: the same for the values of an attribute
attr_keyboard(vals, page, per_page) ==
    LET last_page == LastPage(Len(vals), per_page)
        shown == ClampPage(page, last_page)
    IN  [builder |-> "build_attr_keyboard", items |-> vals, page |-> page,
         per_page |-> per_page, shown |-> shown, last_page |-> last_page,
         view |-> PySlice(vals, shown * per_page, shown * per_page + per_page),
         nav |-> NavButtons(shown, last_page)]

build_template_keyboard(matches, page, per_page) ==
    /\ kb' = template_keyboard(matches, page, per_page)
    /\ UNCHANGED <<gwvars, botvars, uservars, prepared, po>>

build_attr_keyboard(vals, page, per_page) ==
    /\ kb' = attr_keyboard(vals, page, per_page)
    /\ UNCHANGED <<gwvars, botvars, uservars, prepared, po>>

(***************************************************************************)
(* src/bot.py: the session (context.user_data) and its helpers.            *)
(***************************************************************************)
\* reset_session: the keys of the variant flow and their values
EmptySession ==
    [stage |-> "None", query |-> "None", matches |-> << >>, tpl_page |-> 0,
     template |-> NoneVal, attributes |-> << >>, current_idx |-> 0,
     default_code |-> "None", barcode |-> "None"]

\* a reset that keeps the template
reset_session_partial(data) == [EmptySession EXCEPT !.template = data.template]

reset_session(data) == EmptySession

\* context.user_data.clear(): every key is gone; a later read through
\* .get(key, default) sees the default, which is reset_session's value
ClearedSession == EmptySession

\* selections_list: one entry per attribute whose selected value is truthy
RECURSIVE SelectionsOf(_)
SelectionsOf(attrs) ==
    IF attrs = << >> THEN << >>
    ELSE LET a == Head(attrs)
             rest == SelectionsOf(Tail(attrs))
         IN  IF a.selected # 0 THEN <<Sel(a.attribute_id, a.selected)>> \o rest ELSE rest

\* a selection list with an entry for every attribute, picked or not
selections_list_all(data) ==
    [i \in 1..Len(data.attributes) |->
        Sel(data.attributes[i].attribute_id, data.attributes[i].selected)]

selections_list(data) == SelectionsOf(data.attributes)

\* the payload of /config/prepare and /config/create built from the session
SessionPayload(data) ==
    [template_id |-> data.template.id, selections |-> selections_list(data),
     default_code |-> data.default_code, barcode |-> data.barcode]

\* gw_post: what the handler sees of a gateway response: a status >= 400 is
\* raise_for_status's HTTPError, turned into ok = false with a message
gw_post(resp) ==
    IF resp.status >= 400
    THEN [resp EXCEPT !.ok = FALSE, !.message = "Gateway HTTP error"]
    ELSE resp

\* gw_post when the transport fails: timeout, connection error
GatewayDown == HttpError(0, << >>, "Gateway timeout or connection error")

\* a request body whose template_id is None fails the gateway's validation
Unprocessable == HttpError(422, << >>, "validation error")

\* /config/prepare as one blocking call of the bot
call_prepare(vs, payload) ==
    IF payload.template_id = 0 THEN gw_post(Unprocessable)
    ELSE gw_post(config_prepare(vs, payload))

\* /config/create as one blocking call of the bot, the catalog's create failing
\* or not: the response and the catalog afterwards
config_create(vs, payload, create_fails) ==
    LET c == config_create_check(vs, payload)
        vals == CreateVals(payload, c.ptav_ids)
    IN  IF c.resp # NoResp THEN [resp |-> c.resp, vs |-> vs]
        ELSE IF create_fails \/ CatalogRejects(vs, vals)
        THEN [resp |-> config_create_fallback(vs, payload, c.ptav_ids), vs |-> vs]
        ELSE [resp |-> config_create_created(CatalogCreate(vs, vals), NewId(vs)),
              vs |-> CatalogCreate(vs, vals)]

call_create(vs, payload, create_fails) ==
    IF payload.template_id = 0 THEN [resp |-> gw_post(Unprocessable), vs |-> vs]
    ELSE LET r == config_create(vs, payload, create_fails)
         IN  [resp |-> gw_post(r.resp), vs |-> r.vs]

(***************************************************************************)
(* src/bot.py: the handlers of the variant conversation. Updates are       *)
(* handled one at a time and a gateway call blocks its handler, so each    *)
(* handler is one step.                                                    *)
(***************************************************************************)
\* ask_internal_ref
ask_internal_ref(data) ==
    [data |-> [data EXCEPT !.stage = "ask_code"], state |-> "ASK_CODE"]

\* a send_current_attribute that asks for the reference at any index
send_current_attribute_early(data) == ask_internal_ref(data)

\* send_current_attribute: the session and the conversation state it returns
send_current_attribute(data) ==
    IF data.current_idx >= Len(data.attributes)
    THEN ask_internal_ref(data)
    ELSE [data |-> data, state |-> "PICK_ATTR"]

\* /start: the menu; the handler is outside the conversations, whose states stay
menu_entry ==
    /\ ud' = reset_session(ud)
    /\ UNCHANGED <<conv, gwvars, uservars, flowvars>>
    /\ last' = [handler |-> "menu_entry", data |-> "/start", path |-> "none"]

\* /purchase: the purchase-order flow begins
po_entry ==
    /\ ud' = ClearedSession
    /\ UNCHANGED <<conv, gwvars, uservars, flowvars>>
    /\ last' = [handler |-> "po_entry", data |-> "/purchase", path |-> "none"]

\* the entry point of the variant conversation, re-entered from any state
variant_entry ==
    /\ ud' = [reset_session(ud) EXCEPT !.stage = "search"]
    /\ conv' = "SEARCH"
    /\ UNCHANGED <<gwvars, uservars, flowvars>>
    /\ last' = [handler |-> "variant_entry", data |-> "/variant", path |-> "none"]

\* a /cancel that is handled in the states that take text only
cmd_cancel_text_states ==
    /\ conv \in {"SEARCH", "ASK_CODE", "ASK_BARCODE"}
    /\ ud' = reset_session(ud)
    /\ conv' = "END"
    /\ UNCHANGED <<gwvars, uservars, flowvars>>
    /\ last' = [handler |-> "cmd_cancel", data |-> "/cancel", path |-> "none"]

\* /cancel, a fallback of the conversation
cmd_cancel ==
    /\ conv # "END"
    /\ ud' = reset_session(ud)
    /\ conv' = "END"
    /\ UNCHANGED <<gwvars, uservars, flowvars>>
    /\ last' = [handler |-> "cmd_cancel", data |-> "/cancel", path |-> "none"]

on_search_text(text, down) ==
    /\ conv = "SEARCH"
    /\ LET q == Strip(text)
           matches == config_start(q)
       IN  IF q = "" THEN UNCHANGED <<ud, conv>>
           ELSE IF down
           THEN ud' = [ud EXCEPT !.query = q] /\ UNCHANGED conv
           ELSE IF matches = << >>
           THEN /\ ud' = [ud EXCEPT !.query = q, !.matches = matches, !.tpl_page = 0]
                /\ UNCHANGED conv
           ELSE /\ ud' = [ud EXCEPT !.query = q, !.matches = matches, !.tpl_page = 0,
                                    !.stage = "pick_template"]
                /\ conv' = "PICK_TEMPLATE"
    /\ UNCHANGED <<gwvars, uservars, flowvars>>
    /\ last' = [handler |-> "on_search_text", data |-> "text",
                path |-> IF Strip(text) = "" THEN "none" ELSE "/config/start"]

\* tpl_name: the name of the first match with the id, None when there is none
TemplateNameIn(matches, tpl_id) ==
    LET hits == SelectSeq(matches, LAMBDA m : m.id = tpl_id)
    IN  IF hits = << >> THEN "None" ELSE hits[1].name

\* the attributes of /config/init, each with page 0 and no selected value
Decorated(attrs) ==
    [i \in 1..Len(attrs) |->
        [attribute_id |-> attrs[i].attribute_id, values |-> attrs[i].values,
         page |-> 0, selected |-> 0]]

\* on_template_nav, data = search:new
on_template_nav_search_new ==
    /\ conv = "PICK_TEMPLATE"
    /\ ud' = [ud EXCEPT !.stage = "search"]
    /\ conv' = "SEARCH"
    /\ UNCHANGED <<gwvars, uservars, flowvars>>
    /\ last' = [handler |-> "on_template_nav", data |-> "search:new", path |-> "none"]

\* on_template_nav, data = tplpage:<page>
on_template_nav_page(page) ==
    /\ conv = "PICK_TEMPLATE"
    /\ ud' = [ud EXCEPT !.tpl_page = page]
    /\ UNCHANGED <<conv, gwvars, uservars, flowvars>>
    /\ last' = [handler |-> "on_template_nav", data |-> "tplpage", path |-> "none"]

\* a pick that stores the template before it asks for the attributes
on_template_nav_pick_storing(tpl_id, down) ==
    /\ conv = "PICK_TEMPLATE"
    /\ LET picked == [ud EXCEPT
               !.template = [id |-> tpl_id, name |-> TemplateNameIn(ud.matches, tpl_id)],
               !.attributes = Decorated(config_init(tpl_id)),
               !.current_idx = 0,
               !.stage = "pick_attr"]
           next == send_current_attribute(picked)
       IN  IF down
           THEN conv' = "SEARCH" /\ ud' = [ud EXCEPT !.template = picked.template]
           ELSE ud' = next.data /\ conv' = next.state
    /\ UNCHANGED <<gwvars, uservars, flowvars>>
    /\ last' = [handler |-> "on_template_nav", data |-> "tpl", path |-> "/config/init"]

\* on_template_nav, data = tpl:<tpl_id>
on_template_nav_pick(tpl_id, down) ==
    /\ conv = "PICK_TEMPLATE"
    /\ IF down
       THEN conv' = "SEARCH" /\ UNCHANGED ud
       ELSE LET picked == [ud EXCEPT
                    !.template = [id |-> tpl_id, name |-> TemplateNameIn(ud.matches, tpl_id)],
                    !.attributes = Decorated(config_init(tpl_id)),
                    !.current_idx = 0,
                    !.stage = "pick_attr"]
                next == send_current_attribute(picked)
            IN  ud' = next.data /\ conv' = next.state
    /\ UNCHANGED <<gwvars, uservars, flowvars>>
    /\ last' = [handler |-> "on_template_nav", data |-> "tpl", path |-> "/config/init"]

\* a back step that drops the value of the attribute it returns to
attr_back_clearing(data) ==
    IF data.current_idx > 0
    THEN [data EXCEPT !.current_idx = data.current_idx - 1,
                      !.attributes[data.current_idx].selected = 0]
    ELSE data

\* on_attr_callback, data = attr:back
attr_back(data) ==
    IF data.current_idx > 0
    THEN [data EXCEPT !.current_idx = data.current_idx - 1]
    ELSE data

\* on_attr_callback, data = attrpage:+1 or attrpage:-1
attr_page(data, step_val) ==
    LET i == data.current_idx + 1
        page == data.attributes[i].page + step_val
    IN  [data EXCEPT !.attributes[i].page = IF page > 0 THEN page ELSE 0]

\* a pick that stores the value in the first attribute
attr_val_first(data, val_id) ==
    [data EXCEPT !.attributes[1].selected = val_id,
                 !.current_idx = data.current_idx + 1]

\* a pick that moves on without storing the value
attr_val_skip(data, val_id) ==
    [data EXCEPT !.current_idx = data.current_idx + 1]

\* on_attr_callback, data = val:<attribute_id>:<val_id>
attr_val(data, val_id) ==
    LET i == data.current_idx + 1
    IN  [data EXCEPT !.attributes[i].selected = val_id,
                     !.current_idx = data.current_idx + 1]

\* on_attr_callback when current_idx is past the attributes
on_attr_callback_past ==
    /\ conv = "PICK_ATTR"
    /\ ud.current_idx >= Len(ud.attributes)
    /\ LET next == send_current_attribute(ud)
       IN  ud' = next.data /\ conv' = next.state
    /\ UNCHANGED <<gwvars, uservars, flowvars>>
    /\ last' = [handler |-> "on_attr_callback", data |-> "any", path |-> "none"]

on_attr_callback_back ==
    /\ conv = "PICK_ATTR"
    /\ ud.current_idx < Len(ud.attributes)
    /\ LET next == send_current_attribute(attr_back(ud))
       IN  ud' = next.data /\ conv' = next.state
    /\ UNCHANGED <<gwvars, uservars, flowvars>>
    /\ last' = [handler |-> "on_attr_callback", data |-> "attr:back", path |-> "none"]

on_attr_callback_page(step_val) ==
    /\ conv = "PICK_ATTR"
    /\ ud.current_idx < Len(ud.attributes)
    /\ ud.attributes[ud.current_idx + 1].page + step_val <= MaxPage
    /\ LET next == send_current_attribute(attr_page(ud, step_val))
       IN  ud' = next.data /\ conv' = next.state
    /\ UNCHANGED <<gwvars, uservars, flowvars>>
    /\ last' = [handler |-> "on_attr_callback", data |-> "attrpage", path |-> "none"]

on_attr_callback_val(val_id) ==
    /\ conv = "PICK_ATTR"
    /\ ud.current_idx < Len(ud.attributes)
    /\ LET picked == attr_val(ud, val_id)
           next == IF picked.current_idx >= Len(picked.attributes)
                   THEN ask_internal_ref(picked)
                   ELSE send_current_attribute(picked)
       IN  ud' = next.data /\ conv' = next.state
    /\ UNCHANGED <<gwvars, uservars, flowvars>>
    /\ last' = [handler |-> "on_attr_callback", data |-> "val", path |-> "none"]

\* an on_code_text that takes a blank reference
on_code_text_any(text) ==
    /\ conv = "ASK_CODE"
    /\ ud' = [ud EXCEPT !.default_code = Strip(text), !.stage = "ask_barcode"]
    /\ conv' = "ASK_BARCODE"
    /\ UNCHANGED <<gwvars, uservars, flowvars>>
    /\ last' = [handler |-> "on_code_text", data |-> "text", path |-> "none"]

on_code_text(text) ==
    /\ conv = "ASK_CODE"
    /\ LET code == Strip(text)
       IN  IF code = "" THEN UNCHANGED <<ud, conv>>
           ELSE /\ ud' = [ud EXCEPT !.default_code = code, !.stage = "ask_barcode"]
                /\ conv' = "ASK_BARCODE"
    /\ UNCHANGED <<gwvars, uservars, flowvars>>
    /\ last' = [handler |-> "on_code_text", data |-> "text", path |-> "none"]

\* on_barcode_text: whether building the review summary raises: int(None) or
\* html_escape of None or of an int, for an attribute without a selected value
\* or with one that is not among its values, a template without a name, a
\* missing default_code
SummaryRaises(data) ==
    \/ \E i \in 1..Len(data.attributes) :
          \/ data.attributes[i].selected = 0
          \/ data.attributes[i].selected \notin ToSet(data.attributes[i].values)
    \/ data.template.name = "None"
    \/ data.default_code = "None"

\* on_barcode_text: the session with the barcode stored and the result of
\* gw_post("/config/prepare", payload)
barcode_prepare(vs, data, text, down) ==
    LET stored == [data EXCEPT !.barcode = Strip(text)]
    IN  [stored |-> stored,
         res |-> IF down THEN GatewayDown
                 ELSE call_prepare(vs, SessionPayload(stored))]

\* no /config/prepare has been answered with ok
NoPrepared == [template_id |-> 0, selections |-> << >>, sent |-> FALSE]

\* an on_barcode_text that shows the review whatever prepare answered
on_barcode_text_ignoring(text, down) ==
    /\ conv = "ASK_BARCODE"
    /\ LET p == barcode_prepare(variants, ud, text, down)
       IN  IF Strip(text) = "" THEN UNCHANGED <<ud, conv>>
           ELSE /\ ud' = p.stored
                /\ conv' = IF SummaryRaises(p.stored) THEN conv ELSE "PICK_TEMPLATE"
    /\ UNCHANGED <<gwvars, uservars, flowvars>>
    /\ last' = [handler |-> "on_barcode_text", data |-> "text",
                path |-> IF Strip(text) = "" THEN "none" ELSE "/config/prepare"]

on_barcode_text(text, down) ==
    /\ conv = "ASK_BARCODE"
    /\ LET p == barcode_prepare(variants, ud, text, down)
       IN  IF Strip(text) = "" THEN UNCHANGED <<ud, conv>>
           ELSE /\ ud' = p.stored
                /\ conv' = IF ~p.res.ok THEN "SEARCH"
                           ELSE IF SummaryRaises(p.stored) THEN conv
                           ELSE "PICK_TEMPLATE"
    /\ UNCHANGED <<gwvars, uservars, flowvars>>
    /\ last' = [handler |-> "on_barcode_text", data |-> "text",
                path |-> IF Strip(text) = "" THEN "none" ELSE "/config/prepare"]

\* on_barcode_text with the payload of its request kept when res.get("ok")
on_barcode_text_recorded(text, down) ==
    /\ conv = "ASK_BARCODE"
    /\ LET p == barcode_prepare(variants, ud, text, down)
           payload == SessionPayload(p.stored)
       IN  IF Strip(text) = "" THEN UNCHANGED <<ud, conv, prepared>>
           ELSE /\ ud' = p.stored
                /\ conv' = IF ~p.res.ok THEN "SEARCH"
                           ELSE IF SummaryRaises(p.stored) THEN conv
                           ELSE "PICK_TEMPLATE"
                /\ prepared' = IF p.res.ok
                               THEN [template_id |-> payload.template_id,
                                     selections |-> payload.selections, sent |-> TRUE]
                               ELSE prepared
    /\ UNCHANGED <<gwvars, uservars, kb, po>>
    /\ last' = [handler |-> "on_barcode_text", data |-> "text",
                path |-> IF Strip(text) = "" THEN "none" ELSE "/config/prepare"]

\* a use:<variant_id> that posts the create request before it ends the flow
on_review_callback_use_creating ==
    /\ conv = "PICK_TEMPLATE"
    /\ LET r == call_create(variants, SessionPayload(ud), FALSE)
       IN  Len(r.vs) <= MaxVariants /\ variants' = r.vs
    /\ ud' = reset_session(ud)
    /\ conv' = "END"
    /\ UNCHANGED <<variants0, reqs, uservars, flowvars>>
    /\ last' = [handler |-> "on_review_callback", data |-> "use", path |-> "/config/create"]

\* on_review_callback, data = use:<variant_id>
on_review_callback_use ==
    /\ conv = "PICK_TEMPLATE"
    /\ ud' = reset_session(ud)
    /\ conv' = "END"
    /\ UNCHANGED <<gwvars, uservars, flowvars>>
    /\ last' = [handler |-> "on_review_callback", data |-> "use", path |-> "none"]

\* a change:attrs that starts over with no values
change_attrs_clearing(data) ==
    [data EXCEPT !.current_idx = 0,
                 !.attributes = [i \in 1..Len(data.attributes) |->
                                    [data.attributes[i] EXCEPT !.page = 0, !.selected = 0]]]

\* on_review_callback, data = change:attrs
change_attrs(data) ==
    [data EXCEPT !.current_idx = 0,
                 !.attributes = [i \in 1..Len(data.attributes) |->
                                    [data.attributes[i] EXCEPT !.page = 0]]]

on_review_callback_change ==
    /\ conv = "PICK_TEMPLATE"
    /\ LET next == send_current_attribute(change_attrs(ud))
       IN  ud' = next.data /\ conv' = next.state
    /\ UNCHANGED <<gwvars, uservars, flowvars>>
    /\ last' = [handler |-> "on_review_callback", data |-> "change:attrs", path |-> "none"]

\* on_review_callback, data = create:new. lost: the transport fails before the
\* gateway has the request ("before"), or after it has handled it ("after")
create_new(vs, data, lost, create_fails) ==
    LET r == IF lost = "before" THEN [resp |-> GatewayDown, vs |-> vs]
             ELSE call_create(vs, SessionPayload(data), create_fails)
    IN  [res |-> IF lost = "no" THEN r.resp ELSE GatewayDown, vs |-> r.vs]

on_review_callback_create(lost, create_fails) ==
    /\ conv = "PICK_TEMPLATE"
    /\ LET r == create_new(variants, ud, lost, create_fails)
       IN  /\ Len(r.vs) <= MaxVariants
           /\ variants' = r.vs
           /\ ud' = IF r.res.ok THEN reset_session(ud) ELSE ud
           /\ conv' = "END"
    /\ UNCHANGED <<variants0, reqs, uservars, flowvars>>
    /\ last' = [handler |-> "on_review_callback", data |-> "create:new",
                path |-> "/config/create"]

(***************************************************************************)
(* src/bot.py: the purchase-order conversation. Its handlers keep their    *)
(* keys in context.user_data; a key that is absent reads as its default.   *)
(***************************************************************************)
\* the most order lines a user enters in one flow
MaxProducts == 3

\* the texts a user sends as a product: blank, a name that matches both
\* products, a name that matches one, a name that matches none
ProductInputs == {" ", "a", "ch", "zz"}

\* the texts a user sends as a quantity or a price
NumberInputs == {"x", "-1", "0", "2"}

\* the texts a user sends when asked whether to add more
MoreInputs == {"Yes", "no", "maybe"}

\* float(text): whether it parses, and its value
IsFloat(text) == text \in {"-1", "0", "2"}

FloatOf(text) == IF text = "-1" THEN -1 ELSE IF text = "0" THEN 0 ELSE 2

\* str.lower()
Lower(text) == IF text = "Yes" THEN "yes" ELSE text

\* /config/start for a product query
po_search(q) ==
    IF q = "ch" THEN << [id |-> 1, name |-> TemplateName(1)] >> ELSE config_start(q)

\* context.user_data after clear(), by the keys of the purchase-order flow
NoOrderData ==
    [supplier_name |-> "None", product_id |-> 0, product_name |-> "None",
     quantity |-> 0, price |-> 0, order_lines |-> << >>, product_matches |-> << >>]

\* nothing posted to /purchase/create
NoPosted == [sent |-> FALSE, order_lines |-> << >>]

\* before the flow is entered
NoOrder == [state |-> "END", ud |-> NoOrderData, entered |-> << >>, posted |-> NoPosted]

\* the order line po_on_price builds from the session
OrderLine(data) ==
    [product_id |-> data.product_id, name |-> data.product_name,
     product_qty |-> data.quantity, price_unit |-> data.price, product_uom |-> 1]

\* po_on_price: context.user_data["order_lines"] = [{...}]
po_price_lines(data) == << OrderLine(data) >>

\* the update a handler of the flow has handled, and the path it posted to
po_last(handler, data, path) ==
    /\ last' = [handler |-> handler, data |-> data, path |-> path]
    /\ UNCHANGED <<gwvars, conv, ud, uservars, kb, prepared>>

\* po_entry as the entry point of the conversation, re-entered from any state
po_start ==
    /\ po' = [state |-> "PO_ASK_SUPPLIER", ud |-> NoOrderData,
              entered |-> << >>, posted |-> NoPosted]
    /\ po_last("po_entry", "text", "none")

po_on_supplier(text) ==
    /\ po.state = "PO_ASK_SUPPLIER"
    /\ po' = IF Strip(text) = "" THEN po
             ELSE [po EXCEPT !.ud.supplier_name = Strip(text), !.state = "PO_ASK_PRODUCT"]
    /\ po_last("po_on_supplier", "text", "none")

\* po_on_product; down: gw_post answers without ok
po_on_product(text, down) ==
    /\ po.state = "PO_ASK_PRODUCT"
    /\ LET matches == po_search(Strip(text))
       IN  po' = IF Strip(text) = "" \/ down \/ matches = << >> THEN po
                 ELSE IF Len(matches) = 1
                 THEN [po EXCEPT !.ud.product_id = matches[1].id,
                                 !.ud.product_name = matches[1].name,
                                 !.state = "PO_ASK_QTY"]
                 ELSE [po EXCEPT !.ud.product_matches = matches]
    /\ po_last("po_on_product", "text",
               IF Strip(text) = "" THEN "none" ELSE "/config/start")

\* po_on_product_select, data = tpl:<id>
po_on_product_select(tpl_id) ==
    /\ po.state = "PO_ASK_PRODUCT"
    /\ LET hits == SelectSeq(po.ud.product_matches, LAMBDA m : m.id = tpl_id)
       IN  po' = IF hits = << >> THEN po
                 ELSE [po EXCEPT !.ud.product_id = hits[1].id,
                                 !.ud.product_name = hits[1].name,
                                 !.state = "PO_ASK_QTY"]
    /\ po_last("po_on_product_select", "tpl", "none")

po_on_qty(text) ==
    /\ po.state = "PO_ASK_QTY"
    /\ po' = IF IsFloat(text) /\ FloatOf(text) > 0
             THEN [po EXCEPT !.ud.quantity = FloatOf(text), !.state = "PO_ASK_PRICE"]
             ELSE po
    /\ po_last("po_on_qty", "text", "none")

\* po_on_price; as history the line is added to the lines the user entered
po_on_price(text) ==
    /\ po.state = "PO_ASK_PRICE"
    /\ IF IsFloat(text) /\ FloatOf(text) >= 0
       THEN /\ Len(po.entered) < MaxProducts
            /\ LET data == [po.ud EXCEPT !.price = FloatOf(text)]
               IN  po' = [po EXCEPT
                             !.ud = [data EXCEPT !.order_lines = po_price_lines(data)],
                             !.entered = Append(po.entered, OrderLine(data)),
                             !.state = "PO_ASK_MORE"]
       ELSE po' = po
    /\ po_last("po_on_price", "text", "none")

\* po_on_more: yes asks for the next product, no is _show_po_review, another
\* reply asks again
po_on_more(text) ==
    /\ po.state = "PO_ASK_MORE"
    /\ po' = IF Lower(Strip(text)) = "yes" THEN [po EXCEPT !.state = "PO_ASK_PRODUCT"]
             ELSE IF Lower(Strip(text)) = "no" THEN [po EXCEPT !.state = "PO_REVIEW"]
             ELSE po
    /\ po_last("po_on_more", Lower(Strip(text)), "none")

\* po_on_review, data = confirm: _create_purchase_order posts the order lines
po_on_review_confirm ==
    /\ po.state = "PO_REVIEW"
    /\ po' = [po EXCEPT !.posted = [sent |-> TRUE, order_lines |-> po.ud.order_lines],
                        !.state = "END"]
    /\ po_last("po_on_review", "confirm", "/purchase/create")

\* po_on_review, data = add_more
po_on_review_add_more ==
    /\ po.state = "PO_REVIEW"
    /\ po' = [po EXCEPT !.state = "PO_ASK_PRODUCT"]
    /\ po_last("po_on_review", "add_more", "none")

\* po_on_review, data = cancel
po_on_review_cancel ==
    /\ po.state = "PO_REVIEW"
    /\ po' = [po EXCEPT !.state = "END"]
    /\ po_last("po_on_review", "cancel", "none")

\* /cancel, the fallback of the conversation: reset_session drops every key
po_cancel ==
    /\ po.state # "END"
    /\ po' = [po EXCEPT !.ud = NoOrderData, !.state = "END"]
    /\ po_last("cmd_cancel", "/cancel", "none")

(***************************************************************************)
(* src/bot.py: gw_post by the outcome of its HTTP call. What it returns is *)
(* a Python value: a dict with or without the key ok, or another value.    *)
(***************************************************************************)
\* the paths the handlers of the variant flow post to
GatewayPaths == {"/config/start", "/config/init", "/config/prepare", "/config/create"}

\* what requests.post, raise_for_status and r.json() do in a call: raise
\* ReadTimeout, raise ConnectionError (ConnectTimeout is one), raise HTTPError
\* for a status >= 400, raise a ValueError for a 2xx body that is no JSON, or
\* return the parsed 2xx body: a JSON array, or an object with ok true or false
CallOutcomes ==
    {"ReadTimeout", "ConnectionError", "HTTPError", "NotJson",
     "JsonArray", "ObjectOk", "ObjectNotOk"}

\* the outcomes the gateway contract calls a failure: a timeout, a
\* connection error, a non-2xx status, a malformed body
FailureOutcomes == {"ReadTimeout", "ConnectionError", "HTTPError", "NotJson", "JsonArray"}

PyDict(ok, message) == [type |-> "dict", ok |-> ok, message |-> message]

\* gw_post: the except clauses in their order, and return r.json()
gw_post_value(outcome) ==
    IF outcome = "ReadTimeout" THEN PyDict(FALSE, "Gateway timeout (no response in 60s).")
    ELSE IF outcome = "ConnectionError" THEN PyDict(FALSE, "Gateway connection error")
    ELSE IF outcome = "HTTPError" THEN PyDict(FALSE, "Gateway HTTP")
    ELSE IF outcome = "NotJson" THEN PyDict(FALSE, "Gateway error")
    ELSE IF outcome = "JsonArray" THEN [type |-> "list", ok |-> FALSE, message |-> "None"]
    ELSE IF outcome = "ObjectOk" THEN PyDict(TRUE, "None")
    ELSE PyDict(FALSE, "detail")

\* the handler's first use of the result, res.get("ok"): an AttributeError
\* when the result is no dict, which ends the handler
HandlerRaises(res) == res.type # "dict"

\* a handler posts to a path and reads the result
gw_post_call(path, outcome) ==
    /\ Len(reqs) < MaxReqs
    /\ LET res == gw_post_value(outcome)
       IN  reqs' = Append(reqs, [path |-> path, outcome |-> outcome, res |-> res,
                                 raised |-> HandlerRaises(res)])
    /\ UNCHANGED <<variants, variants0, botvars, uservars, flowvars>>

(***************************************************************************)
(* src/bot.py: the dispatch of callback queries in variant_conversation.   *)
(* Callback data is modelled by its kind; "other" is data that matches no  *)
(* pattern of the conversation.                                            *)
(***************************************************************************)
\* ^(tpl:\d+|tplpage:-?\d+|search:new)$
TemplateNavPattern == {"tpl", "tplpage", "search:new"}
\* ^(use:\d+|change:attrs|create:new)$
ReviewPattern == {"use", "change:attrs", "create:new"}
\* ^(val:\d+:\d+|attrpage:[+-]1|attr:back)$
AttrPattern == {"val", "attrpage", "attr:back"}

\* a conversation whose callback handlers are registered without a pattern
callback_handler_any(state, kind) ==
    IF state = "PICK_TEMPLATE" THEN "on_template_nav"
    ELSE IF state = "PICK_ATTR" THEN "on_attr_callback"
    ELSE "none"

\* the handler that takes a callback query in a state of the conversation:
\* the first handler of the state whose pattern matches the data
callback_handler(state, kind) ==
    IF state = "PICK_TEMPLATE" /\ kind \in TemplateNavPattern THEN "on_template_nav"
    ELSE IF state = "PICK_TEMPLATE" /\ kind \in ReviewPattern THEN "on_review_callback"
    ELSE IF state = "PICK_ATTR" /\ kind \in AttrPattern THEN "on_attr_callback"
    ELSE "none"

\* a callback query whose data matches none of the patterns: no handler takes
\* it; a handler that took it would fall through to its last return, or, in
\* on_attr_callback with current_idx past the attributes, ask for the reference
on_callback_other ==
    /\ LET h == callback_handler(conv, "other")
       IN  /\ IF h = "on_attr_callback" /\ ud.current_idx >= Len(ud.attributes)
              THEN LET next == send_current_attribute(ud)
                   IN  ud' = next.data /\ conv' = next.state
              ELSE UNCHANGED <<ud, conv>>
           /\ last' = [handler |-> h, data |-> "other", path |-> "none"]
    /\ UNCHANGED <<gwvars, uservars, flowvars>>

(***************************************************************************)
(* src/bot.py: several users. The application keeps one user_data dict and *)
(* one conversation state per user and hands each update to the handlers   *)
(* with those of its sender. The handlers are the ones above, written here *)
(* as functions of the state, the session and the catalog they are given.  *)
(***************************************************************************)
Users == {"A", "B"}

\* an update: the kind of its message or callback data, the id in the data,
\* and how its gateway call fails, if it makes one: not at all, before the
\* gateway has the request, or after the gateway has handled it
Update(kind, arg, fail) == [kind |-> kind, arg |-> arg, fail |-> fail]

\* the updates a user sends: the commands, the text "a", the buttons of the
\* keyboards; the id of a val update is the place of the value button on the
\* keyboard shown
UserUpdates ==
    { Update(k, 0, "no") : k \in {"/variant", "/cancel", "attr:back", "use", "change:attrs"} }
    \cup { Update("text", 0, f) : f \in {"no", "before"} }
    \cup { Update("tpl", t, f) : t \in TemplateInputs, f \in {"no", "before"} }
    \cup { Update("val", k, "no") : k \in {1, 2} }
    \cup { Update("create:new", 0, f) : f \in {"no", "before", "after"} }

\* the value id in the k-th val:<attribute_id>:<value_id> button of the
\* keyboard that send_current_attribute shows for the attribute asked (the
\* last button when the keyboard has fewer)
ShownValue(d, k) ==
    IF d.current_idx < Len(d.attributes)
    THEN LET values == d.attributes[d.current_idx + 1].values
         IN  values[IF k <= Len(values) THEN k ELSE Len(values)]
    ELSE 0

\* on_search_text with a text that is not blank
search_text(d, q, down) ==
    LET matches == config_start(q)
    IN  IF down THEN [conv |-> "SEARCH", ud |-> [d EXCEPT !.query = q]]
        ELSE IF matches = << >>
        THEN [conv |-> "SEARCH",
              ud |-> [d EXCEPT !.query = q, !.matches = matches, !.tpl_page = 0]]
        ELSE [conv |-> "PICK_TEMPLATE",
              ud |-> [d EXCEPT !.query = q, !.matches = matches, !.tpl_page = 0,
                               !.stage = "pick_template"]]

\* on_template_nav, data = tpl:<tpl_id>
template_pick(d, tpl_id, down) ==
    LET picked == [d EXCEPT
            !.template = [id |-> tpl_id, name |-> TemplateNameIn(d.matches, tpl_id)],
            !.attributes = Decorated(config_init(tpl_id)),
            !.current_idx = 0,
            !.stage = "pick_attr"]
        next == send_current_attribute(picked)
    IN  IF down THEN [conv |-> "SEARCH", ud |-> d]
        ELSE [conv |-> next.state, ud |-> next.data]

\* on_attr_callback, data = val:<attribute_id>:<val_id> or attr:back
attr_callback(d, kind, val_id) ==
    LET stepped == IF kind = "val" THEN attr_val(d, val_id) ELSE attr_back(d)
        next == IF d.current_idx >= Len(d.attributes) THEN send_current_attribute(d)
                ELSE send_current_attribute(stepped)
    IN  [conv |-> next.state, ud |-> next.data]

\* on_code_text with a text that is not blank
code_text(d, code) ==
    [conv |-> "ASK_BARCODE", ud |-> [d EXCEPT !.default_code = code, !.stage = "ask_barcode"]]

\* on_barcode_text with a text that is not blank
barcode_text(c, d, vs, text, down) ==
    LET p == barcode_prepare(vs, d, text, down)
    IN  [conv |-> IF ~p.res.ok THEN "SEARCH"
                  ELSE IF SummaryRaises(p.stored) THEN c
                  ELSE "PICK_TEMPLATE",
         ud |-> p.stored]

\* on_review_callback, data = create:new; the catalog's create fails only
\* when the catalog rejects the combination
review_create(d, vs, lost) ==
    LET r == create_new(vs, d, lost, FALSE)
    IN  [conv |-> "END", ud |-> IF r.res.ok THEN reset_session(d) ELSE d, vs |-> r.vs]

\* the handler the application runs for an update of a user whose
\* conversation is in state c and whose user_data is d, over the catalog vs:
\* the state and the user_data afterwards, and the catalog
handle(c, d, vs, u) ==
    LET with(r) == [conv |-> r.conv, ud |-> r.ud, vs |-> vs]
        down == u.fail # "no"
    IN  IF u.kind = "/variant"
        THEN with([conv |-> "SEARCH", ud |-> [reset_session(d) EXCEPT !.stage = "search"]])
        ELSE IF u.kind = "/cancel" /\ c # "END"
        THEN with([conv |-> "END", ud |-> reset_session(d)])
        ELSE IF u.kind = "text" /\ c = "SEARCH" THEN with(search_text(d, "a", down))
        ELSE IF u.kind = "text" /\ c = "ASK_CODE" THEN with(code_text(d, "a"))
        ELSE IF u.kind = "text" /\ c = "ASK_BARCODE"
        THEN with(barcode_text(c, d, vs, "a", down))
        ELSE IF u.kind = "tpl" /\ callback_handler(c, u.kind) = "on_template_nav"
        THEN with(template_pick(d, u.arg, down))
        ELSE IF u.kind \in {"val", "attr:back"}
                /\ callback_handler(c, u.kind) = "on_attr_callback"
        THEN with(attr_callback(d, u.kind, ShownValue(d, u.arg)))
        ELSE IF u.kind = "use" /\ callback_handler(c, u.kind) = "on_review_callback"
        THEN with([conv |-> "END", ud |-> reset_session(d)])
        ELSE IF u.kind = "change:attrs"
                /\ callback_handler(c, u.kind) = "on_review_callback"
        THEN LET next == send_current_attribute(change_attrs(d))
             IN  with([conv |-> next.state, ud |-> next.data])
        ELSE IF u.kind = "create:new"
                /\ callback_handler(c, u.kind) = "on_review_callback"
        THEN review_create(d, vs, u.fail)
        ELSE [conv |-> c, ud |-> d, vs |-> vs]

\* an application with one user_data dict for all users
store_session_shared(ss, user, r) ==
    [v \in DOMAIN ss |-> [conv |-> IF v = user THEN r.conv ELSE ss[v].conv, ud |-> r.ud]]

\* context.user_data is the dict of the sender and the conversation state is
\* kept under the key of the sender
store_session(ss, user, r) ==
    [ss EXCEPT ![user] = [conv |-> r.conv, ud |-> r.ud]]

\* the application handles an update of a user
UserUpdate(user, u) ==
    /\ LET r == handle(sessions[user].conv, sessions[user].ud, variants, u)
       IN  /\ Len(r.vs) <= MaxVariants
           /\ variants' = r.vs
           /\ sessions' = store_session(sessions, user, r)
    /\ solo' = IF user = "B" THEN handle(solo.conv, solo.ud, solo.vs, u) ELSE solo
    /\ UNCHANGED <<variants0, reqs, botvars, flowvars>>

(***************************************************************************)
(* The specifications: the gateway under concurrent requests (SpecGW) and  *)
(* the bot of one user over the gateway (Spec).                            *)
(***************************************************************************)
Init ==
    /\ variants \in InitialCatalogs
    /\ variants0 = variants
    /\ reqs = << >>
    /\ conv = "END"
    /\ ud = ClearedSession
    /\ last = [handler |-> "none", data |-> "none", path |-> "none"]
    /\ sessions = [u \in Users |-> [conv |-> "END", ud |-> ClearedSession]]
    /\ solo = [conv |-> "END", ud |-> ClearedSession, vs |-> variants]
    /\ kb = NoKeyboard
    /\ prepared = NoPrepared
    /\ po = NoOrder

NextGW ==
    \/ \E payload \in Payloads : PrepareRequest(payload)
    \/ \E payload \in Payloads : CreateCheckStep(payload)
    \/ \E i \in 1..Len(reqs) : CreateWriteOk(i)
    \/ \E i \in 1..Len(reqs) : CreateWriteRaises(i)
    \/ \E i \in 1..Len(reqs) : CreateFallbackStep(i)

SpecGW == Init /\ [][NextGW]_vars

\* the gateway over a catalog that holds variants with identical combinations
InitDup ==
    /\ variants = CatalogC
    /\ variants0 = variants
    /\ reqs = << >>
    /\ conv = "END"
    /\ ud = ClearedSession
    /\ last = [handler |-> "none", data |-> "none", path |-> "none"]
    /\ sessions = [u \in Users |-> [conv |-> "END", ud |-> ClearedSession]]
    /\ solo = [conv |-> "END", ud |-> ClearedSession, vs |-> variants]
    /\ kb = NoKeyboard
    /\ prepared = NoPrepared
    /\ po = NoOrder

SpecGWDup == InitDup /\ [][NextGW]_vars

\* the bot starts over one catalog: an archived variant of template 1 and an
\* archived variant of the template without attributes
InitBot ==
    /\ variants = CatalogA
    /\ variants0 = variants
    /\ reqs = << >>
    /\ conv = "END"
    /\ ud = ClearedSession
    /\ last = [handler |-> "none", data |-> "none", path |-> "none"]
    /\ sessions = [u \in Users |-> [conv |-> "END", ud |-> ClearedSession]]
    /\ solo = [conv |-> "END", ud |-> ClearedSession, vs |-> variants]
    /\ kb = NoKeyboard
    /\ prepared = NoPrepared
    /\ po = NoOrder

Next ==
    \/ menu_entry
    \/ po_entry
    \/ variant_entry
    \/ cmd_cancel
    \/ \E text \in SearchInputs, down \in BOOLEAN : on_search_text(text, down)
    \/ on_template_nav_search_new
    \/ \E page \in PageInputs : on_template_nav_page(page)
    \/ \E tpl_id \in TemplateInputs, down \in BOOLEAN : on_template_nav_pick(tpl_id, down)
    \/ on_attr_callback_past
    \/ on_attr_callback_back
    \/ \E step_val \in {-1, 1} : on_attr_callback_page(step_val)
    \/ \E val_id \in ValueInputs : on_attr_callback_val(val_id)
    \/ \E text \in TextInputs : on_code_text(text)
    \/ \E text \in TextInputs, down \in BOOLEAN : on_barcode_text(text, down)
    \/ on_review_callback_use
    \/ on_review_callback_change
    \/ \E lost \in {"no", "before", "after"}, create_fails \in BOOLEAN :
           on_review_callback_create(lost, create_fails)

Spec == InitBot /\ [][Next]_vars

\* the purchase-order conversation of one user
NextPO ==
    \/ po_start
    \/ \E text \in TextInputs : po_on_supplier(text)
    \/ \E text \in ProductInputs, down \in BOOLEAN : po_on_product(text, down)
    \/ \E tpl_id \in TemplateInputs : po_on_product_select(tpl_id)
    \/ \E text \in NumberInputs : po_on_qty(text)
    \/ \E text \in NumberInputs : po_on_price(text)
    \/ \E text \in MoreInputs : po_on_more(text)
    \/ po_on_review_confirm
    \/ po_on_review_add_more
    \/ po_on_review_cancel
    \/ po_cancel

SpecPO == InitBot /\ [][NextPO]_vars

\* the bot session with the payload of the last prepare that succeeded kept
\* as history. The updates that turn a page are left to Spec: they write
\* tpl_page and page, which no payload reads
NextPrepared ==
    \/ menu_entry
    \/ po_entry
    \/ variant_entry
    \/ cmd_cancel
    \/ \E text \in SearchInputs, down \in BOOLEAN : on_search_text(text, down)
    \/ on_template_nav_search_new
    \/ \E tpl_id \in TemplateInputs, down \in BOOLEAN : on_template_nav_pick(tpl_id, down)
    \/ on_attr_callback_back
    \/ \E val_id \in ValueInputs : on_attr_callback_val(val_id)
    \/ \E text \in TextInputs : on_code_text(text)
    \/ \E text \in TextInputs, down \in BOOLEAN : on_barcode_text_recorded(text, down)
    \/ on_review_callback_use
    \/ on_review_callback_change
    \/ \E lost \in {"no", "before", "after"}, create_fails \in BOOLEAN :
           on_review_callback_create(lost, create_fails)

SpecPrepared == InitBot /\ [][NextPrepared]_vars

\* the bot session over the catalog as it stands, with the callback queries
\* whose data no pattern matches. create:new, the one update that changes the
\* catalog, is left to Spec: the dispatch reads the state of the conversation
\* and the data of the callback, never the catalog
NextDispatch ==
    \/ menu_entry
    \/ po_entry
    \/ variant_entry
    \/ cmd_cancel
    \/ \E text \in SearchInputs, down \in BOOLEAN : on_search_text(text, down)
    \/ on_template_nav_search_new
    \/ \E page \in PageInputs : on_template_nav_page(page)
    \/ \E tpl_id \in TemplateInputs, down \in BOOLEAN : on_template_nav_pick(tpl_id, down)
    \/ on_attr_callback_past
    \/ on_attr_callback_back
    \/ \E step_val \in {-1, 1} : on_attr_callback_page(step_val)
    \/ \E val_id \in ValueInputs : on_attr_callback_val(val_id)
    \/ \E text \in TextInputs : on_code_text(text)
    \/ \E text \in TextInputs, down \in BOOLEAN : on_barcode_text(text, down)
    \/ on_review_callback_use
    \/ on_review_callback_change
    \/ on_callback_other

SpecDispatch == InitBot /\ [][NextDispatch]_vars

\* the bot of two users over the gateway: updates are handled one at a time,
\* in the order they arrive
NextUsers ==
    \E user \in Users, u \in UserUpdates : UserUpdate(user, u)

SpecUsers == InitBot /\ [][NextUsers]_vars

\* the gateway client alone: calls of gw_post with every outcome of the HTTP call
NextClient ==
    \E path \in GatewayPaths, outcome \in CallOutcomes : gw_post_call(path, outcome)

SpecClient == InitBot /\ [][NextClient]_vars

\* the keyboard builders alone: one call in a behaviour, for every item list,
\* page and per_page
NextPager ==
    \/ \E items \in ItemLists, page \in -MaxPageArg..MaxPageArg, per_page \in 1..MaxPerPage :
           kb = NoKeyboard /\ build_template_keyboard(items, page, per_page)
    \/ \E items \in ItemLists, page \in -MaxPageArg..MaxPageArg, per_page \in 1..MaxPerPage :
           kb = NoKeyboard /\ build_attr_keyboard(items, page, per_page)

SpecPager == InitBot /\ [][NextPager]_vars

(***************************************************************************)
(* What a request asked for, stated on the catalog's rows directly.        *)
(***************************************************************************)
ValuesOf(payload) == { payload.selections[k].value_id : k \in 1..Len(payload.selections) }

\* the requested combination: the canonical ids of the selected values
CanonicalIds(payload) ==
    { PtavRows[k].id : k \in { j \in 1..Len(PtavRows) :
          /\ PtavRows[j].tmpl = payload.template_id
          /\ PtavRows[j].pav \in ValuesOf(payload) } }

\* the selected values that have no canonical id on the template
UnresolvedValues(payload) ==
    { v \in ValuesOf(payload) :
          ~\E k \in 1..Len(PtavRows) :
              PtavRows[k].tmpl = payload.template_id /\ PtavRows[k].pav = v }

Resolvable(payload) ==
    payload.template_id \in TemplateIds /\ UnresolvedValues(payload) = {}

IsDone(i) == reqs[i].pc = "done"

\* the catalog as request i saw it at its first read: the catalog only grows
CatalogAt(n) == SubSeq(variants, 1, n)

\* the variants of a template with a given combination
Matching(vs, template_id, comb) ==
    { k \in 1..Len(vs) : vs[k].tmpl = template_id /\ ToSet(vs[k].ptavs) = comb }

MatchingIds(vs, template_id, comb) == { vs[k].id : k \in Matching(vs, template_id, comb) }

\* s and t hold the same elements, each as often
IsPermutation(s, t) ==
    /\ Len(s) = Len(t)
    /\ \A x \in Range(s) \cup Range(t) :
          Cardinality({ k \in 1..Len(s) : s[k] = x }) =
          Cardinality({ k \in 1..Len(t) : t[k] = x })

(***************************************************************************)
(* Claims on the gateway, checked under SpecGW.                            *)
(***************************************************************************)

C2_FallbackReturnsMatch ==
    \A i \in 1..Len(reqs) :
        /\ reqs[i].kind = "create" /\ IsDone(i)
        /\ reqs[i].create_failed
        /\ reqs[i].fallback # NoneVal
        => /\ reqs[i].resp.ok /\ reqs[i].resp.status = 200
           /\ ~reqs[i].resp.created
           /\ reqs[i].resp.variant = reqs[i].fallback

C2_Witness ==
    \E i \in 1..Len(reqs) :
        /\ reqs[i].kind = "create" /\ IsDone(i)
        /\ reqs[i].create_failed
        /\ reqs[i].fallback # NoneVal
        /\ reqs[i].resp.variant.id \in
               MatchingIds(variants, reqs[i].payload.template_id,
                           CanonicalIds(reqs[i].payload))

\* C3 (as claimed): whenever a variant with the requested combination exists
\* on the template when create checks, create returns such a variant with
\* created = false and does not call the catalog's create.
C3_RecheckBeforeWrite ==
    \A i \in 1..Len(reqs) :
        /\ reqs[i].kind = "create"
        /\ Resolvable(reqs[i].payload)
        /\ Matching(CatalogAt(reqs[i].n0), reqs[i].payload.template_id,
                    CanonicalIds(reqs[i].payload)) # {}
        => /\ ~reqs[i].called_create
           /\ IsDone(i) /\ reqs[i].resp.ok /\ ~reqs[i].resp.created
           /\ reqs[i].resp.variant.id \in
                  MatchingIds(CatalogAt(reqs[i].n0), reqs[i].payload.template_id,
                              CanonicalIds(reqs[i].payload))

\* C4 (as claimed): prepare answers with an error that names the offending
\* ids whenever a selected value has no canonical id on the template.
C4_PrepareRejectsUnresolved ==
    \A i \in 1..Len(reqs) :
        /\ reqs[i].kind = "prepare" /\ IsDone(i)
        /\ reqs[i].payload.template_id \in TemplateIds
        /\ UnresolvedValues(reqs[i].payload) # {}
        => /\ ~reqs[i].resp.ok
           /\ ToSet(reqs[i].resp.missing) = UnresolvedValues(reqs[i].payload)

\* C5 (as claimed): prepare fails on unresolved value ids exactly when create
\* does, and a create that fails so has not called the catalog's create and
\* has left the catalog as it was.
C5_SameFailureOnUnresolved ==
    /\ \A i, j \in 1..Len(reqs) :
           /\ reqs[i].kind = "prepare" /\ reqs[j].kind = "create"
           /\ IsDone(i) /\ IsDone(j)
           /\ reqs[i].payload = reqs[j].payload
           => (reqs[i].resp.status = 400 <=> reqs[j].resp.status = 400)
    /\ \A j \in 1..Len(reqs) :
           reqs[j].kind = "create" /\ reqs[j].resp.status = 400
           => ~reqs[j].called_create /\ reqs[j].n1 = reqs[j].n0

\* C6: two prepare requests on the same catalog and template whose selections
\* hold the same values in another order report the same existing variant.
C6_OrderIndependent ==
    \A i, j \in 1..Len(reqs) :
        /\ reqs[i].kind = "prepare" /\ reqs[j].kind = "prepare"
        /\ IsDone(i) /\ IsDone(j)
        /\ reqs[i].payload.template_id = reqs[j].payload.template_id
        /\ IsPermutation(reqs[i].payload.selections, reqs[j].payload.selections)
        /\ reqs[i].n0 = reqs[j].n0
        => reqs[i].resp.variant.id = reqs[j].resp.variant.id

C6_Witness ==
    \E i, j \in 1..Len(reqs) :
        /\ reqs[i].kind = "prepare" /\ reqs[j].kind = "prepare"
        /\ IsDone(i) /\ IsDone(j)
        /\ reqs[i].payload.template_id = reqs[j].payload.template_id
        /\ reqs[i].payload.selections # reqs[j].payload.selections
        /\ IsPermutation(reqs[i].payload.selections, reqs[j].payload.selections)
        /\ reqs[i].n0 = reqs[j].n0
        /\ reqs[i].resp.ok /\ reqs[i].resp.variant # NoneVal
        /\ reqs[j].resp.variant.id = reqs[i].resp.variant.id

\* C7 (as claimed): when prepare reported no existing variant and create then
\* answered created = true with variant V, a prepare of the same template and
\* selection that follows reports V as the existing variant.
C7_CreateThenResolve ==
    \A i, j, k \in 1..Len(reqs) :
        /\ reqs[i].kind = "prepare" /\ reqs[j].kind = "create" /\ reqs[k].kind = "prepare"
        /\ IsDone(i) /\ IsDone(j) /\ IsDone(k)
        /\ reqs[i].payload = reqs[j].payload /\ reqs[k].payload = reqs[j].payload
        /\ reqs[i].resp.ok /\ reqs[i].resp.variant = NoneVal
        /\ reqs[i].n0 <= reqs[j].n0
        /\ reqs[j].resp.ok /\ reqs[j].resp.created
        /\ reqs[k].n0 >= reqs[j].n1
        => /\ reqs[k].resp.ok
           /\ reqs[k].resp.variant.id = reqs[j].resp.variant.id

C9_ArchivedConsidered ==
    \A i \in 1..Len(reqs) :
        /\ IsDone(i)
        /\ Resolvable(reqs[i].payload)
        /\ \E k \in Matching(CatalogAt(reqs[i].n0), reqs[i].payload.template_id,
                               CanonicalIds(reqs[i].payload)) : ~variants[k].active
        => /\ reqs[i].resp.ok /\ ~reqs[i].resp.created
           /\ reqs[i].resp.variant.id \in
                  MatchingIds(CatalogAt(reqs[i].n0), reqs[i].payload.template_id,
                              CanonicalIds(reqs[i].payload))
           /\ ~reqs[i].called_create /\ reqs[i].n1 = reqs[i].n0

(***************************************************************************)
(* Claims about the session of the bot, checked under Spec.                *)
(***************************************************************************)
AllSelected(data) ==
    \A i \in 1..Len(data.attributes) : data.attributes[i].selected # 0

\* C10: invariant I1: in every reachable session state
\* 0 <= current_idx <= len(attributes), and when current_idx equals
\* len(attributes) every attribute of the session has a selected value
C10_IndexInRange ==
    /\ 0 <= ud.current_idx
    /\ ud.current_idx <= Len(ud.attributes)
    /\ ud.current_idx = Len(ud.attributes) => AllSelected(ud)

\* the last attribute of a template with attributes has been picked
C10_Witness ==
    /\ conv = "ASK_CODE"
    /\ Len(ud.attributes) > 0
    /\ ud.current_idx = Len(ud.attributes)
    /\ AllSelected(ud)

\* the number of attributes of the session with a selected value
SelectedCount(data) ==
    Cardinality({i \in 1..Len(data.attributes) : data.attributes[i].selected # 0})

\* C11: selection invariant: whatever picks, back steps and page navigations
\* were made, the selection list derived from the session has at most one
\* entry per attribute_id, and as many entries as attributes with a selected value
C11_SelectionInvariant ==
    LET sel == selections_list(ud)
    IN  /\ \A i, j \in 1..Len(sel) : sel[i].attribute_id = sel[j].attribute_id => i = j
        /\ Len(sel) = SelectedCount(ud)

\* the first attribute is asked again after a pick and a back step, the
\* second has no value yet
C11_Witness ==
    /\ conv = "PICK_ATTR"
    /\ Len(ud.attributes) = 2
    /\ ud.current_idx = 0
    /\ ud.attributes[1].selected # 0
    /\ ud.attributes[2].selected = 0
    /\ Len(selections_list(ud)) = 1

\* C12: the session is in AwaitingCode (the conversation waits for the
\* reference, or the stage says so) only with current_idx equal to
\* len(attributes) and a selected value in every attribute
C12_AwaitingCodeComplete ==
    (conv = "ASK_CODE" \/ ud.stage = "ask_code")
        => /\ ud.current_idx = Len(ud.attributes)
           /\ AllSelected(ud)

\* the reference is asked for after both attributes of template 1 were picked
C12_Witness ==
    /\ conv = "ASK_CODE" /\ ud.stage = "ask_code"
    /\ ud.template.id = 1
    /\ ud.current_idx = 2
    /\ selections_list(ud) = << Sel(1, 2), Sel(2, 3) >>

\* the review summary with its use, change and create buttons is on offer
Reviewing == conv = "PICK_TEMPLATE" /\ ud.stage = "ask_barcode"

\* C13: the session is in Reviewing only with a non-empty default_code and a
\* non-empty barcode
C13_ReviewHasCodes ==
    Reviewing => /\ ud.default_code \notin {"None", ""}
                 /\ ud.barcode \notin {"None", ""}

\* a review of template 1 with reference and barcode
C13_Witness ==
    /\ Reviewing
    /\ ud.template.id = 1
    /\ ud.default_code = "a" /\ ud.barcode = "a"

\* C14 (as claimed): invariant I4: the page cursor of the search and the page
\* cursor of every attribute lie in [0, last_page], with
\* last_page = max(0, ceil(count / page_size) - 1)
C14_PageCursorsClamped ==
    /\ ud.tpl_page \in 0..LastPage(Len(ud.matches), TemplatesPerPage)
    /\ \A i \in 1..Len(ud.attributes) :
           ud.attributes[i].page \in
               0..LastPage(Len(ud.attributes[i].values), ValuesPerPage)

\* the attributes of b carry the selected values of the attributes of a
SameSelected(a, b) ==
    /\ Len(a.attributes) = Len(b.attributes)
    /\ \A j \in 1..Len(a.attributes) :
           b.attributes[j].selected = a.attributes[j].selected

\* C15: a value pick while attribute i is asked stores the value in
\* attributes[i], adds one to current_idx, changes no other attribute's value,
\* and leads to AwaitingCode when current_idx then equals len(attributes), to
\* the next attribute otherwise
C15_ValuePick ==
    [][\A val_id \in ValueInputs :
          on_attr_callback_val(val_id) =>
              LET i == ud.current_idx + 1
              IN  /\ ud'.attributes[i].selected = val_id
                  /\ ud'.current_idx = ud.current_idx + 1
                  /\ Len(ud'.attributes) = Len(ud.attributes)
                  /\ \A j \in 1..Len(ud.attributes) :
                         j # i => ud'.attributes[j].selected = ud.attributes[j].selected
                  /\ conv' = IF ud'.current_idx = Len(ud'.attributes)
                             THEN "ASK_CODE" ELSE "PICK_ATTR"]_vars

\* the second value of the first attribute was picked, the second attribute
\* is asked
C15_Witness ==
    /\ last.data = "val"
    /\ conv = "PICK_ATTR"
    /\ ud.current_idx = 1
    /\ ud.attributes[1].selected = 2

\* C16: attr:back while attribute i is asked takes one from current_idx when
\* i > 0 and leaves it at 0 when i = 0; it changes no attribute's selected
\* value and an attribute is asked afterwards
C16_BackKeepsValues ==
    [][on_attr_callback_back =>
          /\ ud'.current_idx = IF ud.current_idx > 0 THEN ud.current_idx - 1 ELSE 0
          /\ SameSelected(ud, ud')
          /\ conv' = "PICK_ATTR"]_vars

\* back from the second attribute: the first is asked and keeps its value
C16_Witness ==
    /\ last.data = "attr:back"
    /\ conv = "PICK_ATTR"
    /\ ud.current_idx = 0
    /\ ud.attributes[1].selected # 0

\* what change:attrs does to the session, whatever the next state
ChangeKeepsSession ==
    /\ ud'.current_idx = 0
    /\ \A j \in 1..Len(ud'.attributes) : ud'.attributes[j].page = 0
    /\ SameSelected(ud, ud')
    /\ ud'.template = ud.template
    /\ ud'.default_code = ud.default_code
    /\ ud'.barcode = ud.barcode

\* C17 (as claimed): change:attrs in Reviewing sets current_idx and every page
\* to 0, keeps the selected values, the template, default_code and barcode,
\* and leads to the first attribute
C17_ChangeToFirstAttribute ==
    [][(Reviewing /\ on_review_callback_change)
          => (ChangeKeepsSession /\ conv' = "PICK_ATTR")]_vars

\* C17 (amended): the same, leading to the first attribute when the template
\* has attributes and to AwaitingCode when it has none
C17_ChangeKeepsValues ==
    [][(Reviewing /\ on_review_callback_change)
          => /\ ChangeKeepsSession
             /\ conv' = IF Len(ud.attributes) > 0 THEN "PICK_ATTR" ELSE "ASK_CODE"]_vars

\* after change:attrs in the review of template 1: the first attribute is
\* asked, both values, the reference and the barcode are kept
C17_Witness ==
    /\ last.data = "change:attrs"
    /\ conv = "PICK_ATTR"
    /\ ud.current_idx = 0
    /\ Len(ud.attributes) = 2 /\ AllSelected(ud)
    /\ ud.default_code = "a" /\ ud.barcode = "a"

\* C18: use:<variant_id> ends the flow without a write: no request is posted
\* to /config/create and the catalog's variants are as before
C18_UseWritesNothing ==
    [][on_review_callback_use =>
          /\ variants' = variants
          /\ last'.path # "/config/create"
          /\ conv' = "END"]_vars

\* the existing variant was accepted, the catalog is as at the start
C18_Witness ==
    /\ last.data = "use"
    /\ conv = "END"
    /\ variants = variants0

\* the session holds nothing of a configuration
SessionIsEmpty(data) ==
    /\ data.template = NoneVal
    /\ data.attributes = << >>
    /\ data.current_idx = 0
    /\ data.default_code = "None"
    /\ data.barcode = "None"
    /\ data.matches = << >>

\* C19: after use:<variant_id>, and after a create:new whose response was ok
\* (created true or false), the session is the empty session
C19_CommitResets ==
    [][(\/ on_review_callback_use
        \/ \E lost \in {"no", "before", "after"}, create_fails \in BOOLEAN :
              /\ on_review_callback_create(lost, create_fails)
              /\ create_new(variants, ud, lost, create_fails).res.ok)
          => SessionIsEmpty(ud')]_vars

\* a variant was created and the session is empty
C19_Witness ==
    /\ last.data = "create:new"
    /\ Len(variants) > Len(variants0)
    /\ SessionIsEmpty(ud)
    /\ conv = "END"

\* C20 (as claimed): when the create call of create:new fails in Reviewing,
\* the session stays in Reviewing with its template, selections, default_code
\* and barcode, so that create:new and change:attrs are accepted afterwards
C20_CreateErrorStaysReviewing ==
    [][\A lost \in {"no", "before", "after"}, create_fails \in BOOLEAN :
          (/\ Reviewing
           /\ on_review_callback_create(lost, create_fails)
           /\ ~create_new(variants, ud, lost, create_fails).res.ok)
          => (conv' = "PICK_TEMPLATE" /\ ud' = ud)]_vars

\* C21: when loading the attributes fails on a template pick in
\* PickingTemplate, the conversation goes back to Searching and the template,
\* the attributes and current_idx of the session are as before the pick
C21_PickErrorKeepsSession ==
    [][\A tpl_id \in TemplateInputs :
          (ud.stage = "pick_template" /\ on_template_nav_pick(tpl_id, TRUE))
          => /\ conv' = "SEARCH"
             /\ ud'.template = ud.template
             /\ ud'.attributes = ud.attributes
             /\ ud'.current_idx = ud.current_idx]_vars

\* a pick failed in a second search of a session that holds the template and
\* the values of an earlier pick
C21_Witness ==
    /\ last.data = "tpl" /\ conv = "SEARCH"
    /\ ud.stage = "pick_template"
    /\ ud.template.id = 1
    /\ ud.attributes # << >> /\ ud.attributes[1].selected # 0

\* C22: when prepare fails with a gateway error after a non-empty barcode was
\* submitted in AwaitingBarcode, the conversation goes back to Searching and
\* the session is not in Reviewing
C22_PrepareErrorToSearch ==
    [][\A text \in TextInputs, down \in BOOLEAN :
          (/\ ud.stage = "ask_barcode"
           /\ on_barcode_text(text, down)
           /\ Strip(text) # ""
           /\ ~barcode_prepare(variants, ud, text, down).res.ok)
          => (conv' = "SEARCH" /\ ~Reviewing')]_vars

\* prepare failed for a session with template 1, both values and a reference
C22_Witness ==
    /\ last.handler = "on_barcode_text" /\ last.path = "/config/prepare"
    /\ conv = "SEARCH"
    /\ ud.stage = "ask_barcode"
    /\ ud.template.id = 1 /\ AllSelected(ud)
    /\ ud.barcode = "a"

\* a step whose gateway call failed: a search, a template pick, the prepare
\* after a barcode, or the create of create:new
GatewayCallFailed ==
    \/ \E text \in SearchInputs : Strip(text) # "" /\ on_search_text(text, TRUE)
    \/ \E tpl_id \in TemplateInputs : on_template_nav_pick(tpl_id, TRUE)
    \/ \E text \in TextInputs, down \in BOOLEAN :
          /\ on_barcode_text(text, down)
          /\ Strip(text) # ""
          /\ ~barcode_prepare(variants, ud, text, down).res.ok
    \/ \E lost \in {"no", "before", "after"}, create_fails \in BOOLEAN :
          /\ on_review_callback_create(lost, create_fails)
          /\ ~create_new(variants, ud, lost, create_fails).res.ok

\* C23 (as claimed): after a gateway failure at a search, a template pick, a
\* prepare or a create, the state does not advance and the step can be tried
\* again: the conversation is in the state it was in, so that the same user
\* action is accepted, and the action would send the same request
C23_FailureRetryable ==
    [][GatewayCallFailed =>
          /\ conv' = conv
          /\ ud'.template = ud.template
          /\ selections_list(ud') = selections_list(ud)]_vars

\* the states of variant_conversation: Searching, PickingTemplate and
\* Reviewing (both PICK_TEMPLATE), PickingAttribute, AwaitingCode,
\* AwaitingBarcode
FlowStates == {"SEARCH", "PICK_TEMPLATE", "PICK_ATTR", "ASK_CODE", "ASK_BARCODE"}

\* C24: /cancel is accepted in every state of the configuration flow, and it
\* always leaves the empty session and ends the flow
C24_CancelAlways ==
    /\ [](conv \in FlowStates => ENABLED cmd_cancel)
    /\ [][cmd_cancel => (SessionIsEmpty(ud') /\ ud'.stage = "None" /\ conv' = "END")]_vars

\* the flow was cancelled
C24_Witness ==
    /\ last.handler = "cmd_cancel"
    /\ conv = "END"
    /\ SessionIsEmpty(ud)

\* C25 (as claimed): starting a new top-level flow (/start, /purchase,
\* /variant) from any state replaces the session: afterwards no field of the
\* prior session survives and the prior flow no longer takes the user's input:
\* the variant conversation has ended, or is the new flow at its first state
C25_NewFlowReplaces ==
    [][(menu_entry \/ po_entry \/ variant_entry) =>
          /\ SessionIsEmpty(ud')
          /\ \/ conv' = "END"
             \/ variant_entry /\ conv' = "SEARCH"]_vars

\* C26 (as claimed): once a template has been chosen, the template id of the
\* session does not change until the session is reset (by a cancellation, a
\* new flow or a terminal commit)
C26_TemplateImmutable ==
    [][ud.template # NoneVal =>
          (ud'.template.id = ud.template.id \/ SessionIsEmpty(ud'))]_vars

\* the text inputs that are empty or hold whitespace only
BlankInputs == {" "}

C30_ClientNeverRaises ==
    \A i \in 1..Len(reqs) :
        reqs[i].outcome \in FailureOutcomes
        => /\ reqs[i].res.type = "dict"
           /\ reqs[i].res.ok = FALSE
           /\ reqs[i].res.message # "None"
           /\ ~reqs[i].raised

(***************************************************************************)
(* Claims about the sessions of two users, checked under SpecUsers.        *)
(***************************************************************************)

CeilDiv(n, d) == CHOOSE k \in 0..n : k * d >= n /\ \A j \in 0..(k - 1) : j * d < n

\* last_page = max(0, ceil(len(items)/page_size) - 1), as the contract has it
ClaimedLastPage(items, page_size) ==
    LET c == CeilDiv(Len(items), page_size) - 1
    IN  IF c > 0 THEN c ELSE 0

\* clamped_page = min(max(page, 0), last_page), as the contract has it
ClaimedPage(items, page, page_size) ==
    LET low == IF page > 0 THEN page ELSE 0
        lp == ClaimedLastPage(items, page_size)
    IN  IF low < lp THEN low ELSE lp

\* items[p*page_size : p*page_size + page_size]: the items at the positions
\* p*page_size .. p*page_size + page_size - 1 (from 0) that the list has
ClaimedWindow(items, p, page_size) ==
    LET n == Cardinality({i \in 1..Len(items) :
                             p * page_size < i /\ i <= p * page_size + page_size})
    IN  [i \in 1..n |-> items[p * page_size + i]]

\* C31: for any item list, any page (negative and beyond the end included)
\* and page_size > 0 a builder renders the page min(max(page, 0), last_page),
\* with last_page = max(0, ceil(len(items)/page_size) - 1), and the window
\* items[clamped*page_size : clamped*page_size + page_size]; for an empty
\* list the window is empty and last_page is 0
C31_RenderedPage ==
    kb.builder # "none" =>
        /\ kb.last_page = ClaimedLastPage(kb.items, kb.per_page)
        /\ kb.shown = ClaimedPage(kb.items, kb.page, kb.per_page)
        /\ kb.view = ClaimedWindow(kb.items, kb.shown, kb.per_page)
        /\ (kb.items = << >> => kb.view = << >> /\ kb.last_page = 0)

\* a page beyond the end of a list of two pages, the second one short: the
\* last page is rendered
C31_Witness ==
    /\ kb.builder = "build_attr_keyboard"
    /\ Len(kb.items) = 3 /\ kb.per_page = 2
    /\ kb.page > 1
    /\ kb.shown = 1 /\ Len(kb.view) = 1

RECURSIVE ConcatWindows(_, _, _, _)
\* the windows of the pages p..last_page of a builder, one after the other
ConcatWindows(builder, items, per_page, p) ==
    LET k == IF builder = "build_template_keyboard"
             THEN template_keyboard(items, p, per_page)
             ELSE attr_keyboard(items, p, per_page)
    IN  IF p > k.last_page THEN << >>
        ELSE k.view \o ConcatWindows(builder, items, per_page, p + 1)

\* C32: paginator totality: for every item list and page_size > 0 the windows
\* of the pages 0..last_page, one after the other, are the item list: every
\* item once, in order
C32_PaginatorTotal ==
    kb.builder # "none" =>
        ConcatWindows(kb.builder, kb.items, kb.per_page, 0) = kb.items

\* a list of two pages, the second one short
C32_Witness ==
    /\ kb.builder = "build_template_keyboard"
    /\ Len(kb.items) = 4 /\ kb.per_page = 3 /\ kb.last_page = 1
    /\ kb.items[1] # kb.items[4]

(***************************************************************************)
(* Further claims on the gateway, checked under SpecGW.                    *)
(***************************************************************************)
\* C33: when the catalog's create fails and the lookup that follows finds no
\* variant of the combination, create answers with a gateway error: not ok,
\* nothing reported as created, no variant in the answer
C33_NoFabricatedResult ==
    \A i \in 1..Len(reqs) :
        (/\ reqs[i].kind = "create" /\ reqs[i].pc = "done"
         /\ reqs[i].create_failed /\ reqs[i].fallback = NoneVal)
        => /\ ~reqs[i].resp.ok
           /\ reqs[i].resp.status = 502
           /\ ~reqs[i].resp.created
           /\ reqs[i].resp.variant = NoneVal
           /\ ~gw_post(reqs[i].resp).ok

\* a create whose catalog call failed while the catalog held no variant of
\* the combination, answered
C33_Witness ==
    \E i \in 1..Len(reqs) :
        /\ reqs[i].kind = "create" /\ reqs[i].pc = "done"
        /\ reqs[i].create_failed /\ reqs[i].fallback = NoneVal
        /\ ~CatalogHasCombination(variants, reqs[i].payload.template_id,
                                  ToSet(reqs[i].ptav_ids))

\* C35 (as claimed): create twice in a row with the same template and
\* selections, the empty selection of a template without attributes included:
\* when the first call created a variant, the second creates none and
\* answers created = false with the variant of the first
C35_CreateIdempotent ==
    \A i, j \in 1..Len(reqs) :
        (/\ reqs[i].kind = "create" /\ reqs[j].kind = "create"
         /\ IsDone(i) /\ IsDone(j)
         /\ reqs[i].payload = reqs[j].payload
         /\ reqs[i].resp.ok /\ reqs[i].resp.created
         /\ reqs[j].n0 >= reqs[i].n1)
        => /\ reqs[j].n1 = reqs[j].n0
           /\ reqs[j].resp.ok /\ ~reqs[j].resp.created
           /\ reqs[j].resp.variant.id = reqs[i].resp.variant.id

(***************************************************************************)
(* Claims on the gateway over a catalog with identical combinations,       *)
(* checked under SpecGWDup.                                                *)
(***************************************************************************)
\* the position of the first variant of the combination in the catalog's order
FirstMatching(vs, template_id, comb) ==
    CHOOSE k \in Matching(vs, template_id, comb) :
        \A j \in Matching(vs, template_id, comb) : k <= j

\* C34 (as claimed): when the catalog holds more than one variant of the
\* template with the requested combination, prepare and create return the
\* first of them in the catalog's order, and two calls on the same catalog
\* return the same one
C34_FirstOfDuplicates ==
    /\ \A i \in 1..Len(reqs) :
           (/\ IsDone(i) /\ Resolvable(reqs[i].payload)
            /\ Cardinality(Matching(CatalogAt(reqs[i].n0), reqs[i].payload.template_id,
                                    CanonicalIds(reqs[i].payload))) > 1)
           => /\ reqs[i].resp.ok
              /\ reqs[i].resp.variant # NoneVal
              /\ reqs[i].resp.variant.id =
                     CatalogAt(reqs[i].n0)[FirstMatching(CatalogAt(reqs[i].n0),
                         reqs[i].payload.template_id, CanonicalIds(reqs[i].payload))].id
    /\ \A i, j \in 1..Len(reqs) :
           (/\ IsDone(i) /\ IsDone(j) /\ reqs[i].payload = reqs[j].payload
            /\ reqs[i].n0 = reqs[j].n0 /\ reqs[i].n1 = reqs[i].n0 /\ reqs[j].n1 = reqs[j].n0
            /\ Resolvable(reqs[i].payload)
            /\ Cardinality(Matching(CatalogAt(reqs[i].n0), reqs[i].payload.template_id,
                                    CanonicalIds(reqs[i].payload))) > 1)
           => reqs[i].resp.variant = reqs[j].resp.variant

(***************************************************************************)
(* Further claims about the session of the bot, checked under Spec.        *)
(***************************************************************************)
\* C36 (as claimed): in every reachable session state the selected value of
\* each attribute is none or the id of one of that attribute's values: a val
\* button of another attribute, or of a value the attribute asked does not
\* have, changes no selection
C36_SelectedIsOwnValue ==
    \A i \in 1..Len(ud.attributes) :
        \/ ud.attributes[i].selected = 0
        \/ ud.attributes[i].selected \in Range(ud.attributes[i].values)

\* the search results with their tpl, tplpage and search:new buttons are on offer
PickingTemplate == conv = "PICK_TEMPLATE" /\ ud.stage = "pick_template"

\* C37 (as claimed): use:<id>, change:attrs and create:new are acted on only
\* in Reviewing, and tpl:<id>, tplpage:<n> and search:new only in
\* PickingTemplate: a review button pressed in PickingTemplate sends no create
\* request and does not lead to the attributes
C37_CommandsInTheirState ==
    [][/\ (\/ on_review_callback_use
           \/ on_review_callback_change
           \/ \E lost \in {"no", "before", "after"}, create_fails \in BOOLEAN :
                  on_review_callback_create(lost, create_fails))
          => Reviewing
       /\ (\/ on_template_nav_search_new
           \/ \E page \in PageInputs : on_template_nav_page(page)
           \/ \E tpl_id \in TemplateInputs, down \in BOOLEAN :
                  on_template_nav_pick(tpl_id, down))
          => PickingTemplate]_vars

\* C38: no step of a session whose template is none sends a prepare or a
\* create request, and no step enters AwaitingCode leaving the template none
C38_NothingWithoutTemplate ==
    [][/\ ud.template = NoneVal
          => last'.path \notin {"/config/prepare", "/config/create"}
       /\ (conv # "ASK_CODE" /\ conv' = "ASK_CODE")
          => ud'.template # NoneVal]_vars

(***************************************************************************)
(* Claims about the requests of a session, checked under SpecPrepared      *)
(***************************************************************************)
\* C39: every create request of the session carries the template and the
\* selections of the session's last prepare that succeeded
C39_CreateCarriesPrepared ==
    [][(\E lost \in {"no", "before", "after"}, create_fails \in BOOLEAN :
            on_review_callback_create(lost, create_fails))
       => /\ prepared.sent
          /\ SessionPayload(ud).template_id = prepared.template_id
          /\ SessionPayload(ud).selections = prepared.selections]_vars

(***************************************************************************)
(* Claims about the purchase-order conversation, checked under SpecPO      *)
(***************************************************************************)
\* C40: at the review the order lines are the lines the user entered with a
\* valid quantity and price, one for each, and so are the lines posted
C40_EveryProductOrdered ==
    /\ po.state = "PO_REVIEW" => po.ud.order_lines = po.entered
    /\ po.posted.sent => po.posted.order_lines = po.entered

====
